---- MODULE Spec2Model ----
(***************************************************************************)
(* Readium web publication package (RWPP) reader and writer of             *)
(* pack/rwppackage.go, and the lookup of xmlenc/encryption.go.             *)
(*                                                                         *)
(* A source archive is a sequence of zip entries.  NewRWPPReader finds and *)
(* decodes manifest.json, NewWriter seeds the destination archive with the *)
(* W3C manifest and the ancillary resources, NewFile / CopyTo /            *)
(* MarkAsEncrypted fill the destination and its working manifest, Close    *)
(* writes the manifest entry and closes the archive.  Every handler is one *)
(* action; the outcome of each I/O call it makes is an input of the action.*)
(***************************************************************************)
EXTENDS Integers, Sequences, FiniteSets, TLC

VARIABLES
    zipArchive,    \* RWPPReader.zipArchive.File: the entries of the source archive
    phase,         \* where the driver is: "init", "reader", "open_failed", "writing",
                   \* "newwriter_failed", "panicked", "closed", "built"
    openErr,       \* what NewRWPPReader returned: "pending", Nil or its error
    readerManifest,\* RWPPReader.manifest
    manifest,      \* RWPPWriter.manifest, the working manifest
    zipWriter,     \* the entries written to the destination archive so far
    lastOp,        \* the last handler that ran, its inputs, I/O outcomes and result
    newFileCalls,  \* history: the paths passed to NewFile, in call order
    created,       \* history: the paths whose entry NewFile's CreateHeader created
    markedPaths,   \* history: the paths passed to MarkAsEncrypted
    markLog,       \* history: per path, the last MarkAsEncrypted call made after a
                   \* NewFile of that path (a sequence of length 0 or 1)
    passFailed,    \* history: some NewFile or CopyTo returned an error
    xmlData,       \* xmlenc.Manifest.Data of the manifest DataForFile is called on
    xmlPath,       \* the path given to DataForFile
    xmlResult      \* what DataForFile returned (a sequence of length 0 before the call)

packVars == <<zipArchive, phase, openErr, readerManifest, manifest, zipWriter, lastOp,
              newFileCalls, created, markedPaths, markLog, passFailed>>
xmlVars == <<xmlData, xmlPath, xmlResult>>
vars == <<zipArchive, phase, openErr, readerManifest, manifest, zipWriter, lastOp,
          newFileCalls, created, markedPaths, markLog, passFailed,
          xmlData, xmlPath, xmlResult>>

(***************************************************************************)
(* Bounds of the model.                                                    *)
(***************************************************************************)
\* NewFile calls (direct or through CopyTo) on one writer
MaxFiles == 2
\* length of the path given to DataForFile, in characters
MaxPathLen == 3
\* number of EncryptedData records of an encryption manifest
MaxRecords == 2

(***************************************************************************)
(* Names, errors and values.                                               *)
(***************************************************************************)
ManifestLocation == "manifest.json"
W3CManifestName == "publication.json"
LCPScheme == "http://readium.org/2014/01/lcp"

Nil == "nil"
NotFoundErr == "Could not find manifest"

\* the set of elements of a sequence
Range(s) == {s[i] : i \in 1..Len(s)}

\* the first n elements of a sequence
Prefix(s, n) == SubSeq(s, 1, n)

(***************************************************************************)
(* rwpm.Link, as far as the package code reads and writes it.  Properties  *)
(* and Properties.Encrypted are pointers: a sequence of length 0 is nil, a *)
(* sequence of length 1 holds the value pointed to.                        *)
(***************************************************************************)
Link(href, type) == [Href |-> href, Type |-> type, Properties |-> <<>>]

Encrypted(profile, algorithm) ==
    [Scheme |-> LCPScheme, Profile |-> profile, Algorithm |-> algorithm]

\* the link with Properties.Encrypted set to enc, allocating Properties when nil
WithEncrypted(link, enc) == [link EXCEPT !.Properties = <<[Encrypted |-> <<enc>>]>>]

\* Properties != nil && Properties.Encrypted != nil
IsEncrypted(link) == link.Properties # <<>> /\ link.Properties[1].Encrypted # <<>>

Hrefs(links) == [i \in 1..Len(links) |-> links[i].Href]

Publication(readingOrder, resources) ==
    [ReadingOrder |-> readingOrder, Resources |-> resources]

(***************************************************************************)
(* zip entries.  data is the entry's content; json is what encoding/json   *)
(* decodes the content to: a sequence of length 0 when it does not decode  *)
(* to a publication, of length 1 holding the publication when it does.     *)
(***************************************************************************)
Entry(name, data) == [Name |-> name, data |-> data, json |-> <<>>]

ManifestEntry(json) == [Name |-> ManifestLocation, data |-> <<>>, json |-> json]

Names(entries) == [i \in 1..Len(entries) |-> entries[i].Name]

\* files[name] of the map built in NewWriter and Resources: the index of the last
\* entry of that name, 0 when the map has no such key
FileIndex(files, name) ==
    IF \E i \in 1..Len(files) : files[i].Name = name
    THEN CHOOSE i \in 1..Len(files) :
            /\ files[i].Name = name
            /\ \A j \in (i + 1)..Len(files) : files[j].Name # name
    ELSE 0

(***************************************************************************)
(* The source containers the model starts from.                            *)
(***************************************************************************)
ContentOf(name) ==
    CASE name = "a.html" -> <<1>>
      [] name = "b.html" -> <<2>>
      [] name = "styles.css" -> <<3>>
      [] name = "font.woff" -> <<4>>
      [] name = W3CManifestName -> <<5>>
      [] OTHER -> <<>>

SourceContent ==
    <<Entry("a.html", ContentOf("a.html")), Entry("b.html", ContentOf("b.html")),
      Entry("styles.css", ContentOf("styles.css")),
      Entry("font.woff", ContentOf("font.woff"))>>

W3CEntry == Entry(W3CManifestName, ContentOf(W3CManifestName))

\* reading order a.html, b.html (b.html encrypted already), ancillary styles.css
ScenarioPublication ==
    Publication(
        <<Link("a.html", "text/html"),
          WithEncrypted(Link("b.html", "text/html"), Encrypted("basic", "AES-CBC"))>>,
        <<Link("styles.css", "text/css")>>)

\* two ancillary resources
TwoResourcesPublication ==
    [ScenarioPublication EXCEPT
        !.Resources = <<Link("styles.css", "text/css"), Link("font.woff", "font/woff")>>]

\* a reading order link whose href names no entry of the archive, no ancillary
MissingContentPublication ==
    Publication(<<Link("a.html", "text/html"), Link("missing.html", "text/html")>>, <<>>)

\* an ancillary link whose href names no entry of the archive
MissingResourcePublication ==
    [ScenarioPublication EXCEPT !.Resources = <<Link("nofile.css", "text/css")>>]

\* the source of the scenario: reading order a.html, b.html, ancillary styles.css
ScenarioArchive == <<ManifestEntry(<<ScenarioPublication>>)>> \o SourceContent

\* the source archives: without manifest.json, with one that does not decode, and
\* with one that decodes, with and without a W3C manifest beside it
SourceArchives ==
    { SourceContent,
      <<ManifestEntry(<<>>)>> \o SourceContent,
      ScenarioArchive,
      <<W3CEntry, ManifestEntry(<<TwoResourcesPublication>>)>> \o SourceContent,
      <<ManifestEntry(<<MissingContentPublication>>)>> \o SourceContent,
      <<W3CEntry, ManifestEntry(<<MissingResourcePublication>>)>> \o SourceContent }

NoManifest == Publication(<<>>, <<>>)

\* the paths given to NewFile, and those given to MarkAsEncrypted: a path of the
\* reading order and the href of an ancillary resource
Paths == {"a.html", "b.html"}
MarkPaths == {"a.html", "styles.css"}
ContentTypes == {"text/html"}
Profiles == {"basic", "1.0"}
Algorithms == {"AES-CBC"}

InitPack(archive) ==
    /\ zipArchive = archive
    /\ phase = "init"
    /\ openErr = "pending"
    /\ readerManifest = NoManifest
    /\ manifest = NoManifest
    /\ zipWriter = <<>>
    /\ lastOp = [op |-> "none"]
    /\ newFileCalls = <<>>
    /\ created = <<>>
    /\ markedPaths = {}
    /\ markLog = [p \in Paths \cup MarkPaths |-> <<>>]
    /\ passFailed = FALSE

InitXml(data, path) ==
    /\ xmlData = data
    /\ xmlPath = path
    /\ xmlResult = <<>>

(***************************************************************************)
(* NewRWPPReader: find the first entry named manifest.json, open it and    *)
(* decode it.  openOutcome is what file.Open() returns.                    *)
(***************************************************************************)
\* the index of the first entry named manifest.json, 0 when there is none
FindManifest(files) ==
    IF \E i \in 1..Len(files) : files[i].Name = ManifestLocation
    THEN CHOOSE i \in 1..Len(files) :
            /\ files[i].Name = ManifestLocation
            /\ \A j \in 1..(i - 1) : files[j].Name # ManifestLocation
    ELSE 0

\* ReadManifest with the error of Decode dropped
ReadManifestDecodeUnchecked(files, openOutcome) ==
    LET i == FindManifest(files) IN
    IF i = 0 THEN [err |-> NotFoundErr, manifest |-> NoManifest]
    ELSE IF openOutcome # Nil THEN [err |-> openOutcome, manifest |-> NoManifest]
    ELSE IF files[i].json = <<>> THEN [err |-> Nil, manifest |-> NoManifest]
    ELSE [err |-> Nil, manifest |-> files[i].json[1]]

\* what NewRWPPReader returns: the error and, when it is Nil, the manifest
ReadManifest(files, openOutcome) ==
    LET i == FindManifest(files) IN
    IF i = 0 THEN [err |-> NotFoundErr, manifest |-> NoManifest]
    ELSE IF openOutcome # Nil THEN [err |-> openOutcome, manifest |-> NoManifest]
    ELSE IF files[i].json = <<>> THEN [err |-> "decode_err", manifest |-> NoManifest]
    ELSE [err |-> Nil, manifest |-> files[i].json[1]]

NewRWPPReader ==
    /\ phase = "init"
    /\ \E openOutcome \in {Nil, "open_err"} :
        LET r == ReadManifest(zipArchive, openOutcome) IN
        /\ openErr' = r.err
        /\ readerManifest' = r.manifest
        /\ phase' = IF r.err = Nil THEN "reader" ELSE "open_failed"
        /\ lastOp' = [op |-> "NewRWPPReader", open |-> openOutcome, err |-> r.err]
    /\ UNCHANGED <<zipArchive, manifest, zipWriter, newFileCalls, created,
                   markedPaths, markLog, passFailed>>
    /\ UNCHANGED xmlVars

(***************************************************************************)
(* NewWriter: copy the W3C manifest, when the source has one, and every    *)
(* ancillary resource of the manifest to a new destination archive, then   *)
(* bind a writer to a copy of the manifest with an empty reading order.    *)
(***************************************************************************)
\* the outcomes of one zip to zip copy: all calls succeed; zipWriter.Create fails;
\* file.Open fails; io.Copy fails after n bytes were transferred
CopyOutcomes(data) ==
    {[kind |-> k, n |-> 0] : k \in {"ok", "create_err", "open_err"}} \cup
    {[kind |-> "copy_err", n |-> n] : n \in 0..Len(data)}

\* lines 60-67 (and 48-54 for the W3C manifest, whose file is known to exist): the
\* destination after the copy of the entry called name, and how the copy ended.
\* A name that is no key of files yields a nil *zip.File, and sourceFile.Name
\* panics; a failed Open yields a nil reader, and io.Copy panics reading from it;
\* the error of io.Copy is dropped.
VerbatimCopy(zw, files, name, out) ==
    LET i == FileIndex(files, name) IN
    IF i = 0 THEN [zw |-> zw, status |-> "panic", err |-> Nil, tag |-> "missing"]
    ELSE IF out.kind = "create_err"
    THEN [zw |-> zw, status |-> "error", err |-> "create_err", tag |-> out.kind]
    ELSE IF out.kind = "open_err"
    THEN [zw |-> Append(zw, Entry(files[i].Name, <<>>)), status |-> "panic",
          err |-> Nil, tag |-> out.kind]
    ELSE IF out.kind = "copy_err"
    THEN [zw |-> Append(zw, Entry(files[i].Name, Prefix(files[i].data, out.n))),
          status |-> "ok", err |-> Nil, tag |-> out.kind]
    ELSE [zw |-> Append(zw, files[i]), status |-> "ok", err |-> Nil, tag |-> out.kind]

\* the loop of lines 59-68 over the names still to copy; seen lists how each copy
\* that was started ended
RECURSIVE CopyResources(_, _, _, _)
CopyResources(zw, files, names, outs) ==
    IF names = <<>> THEN [zw |-> zw, status |-> "ok", err |-> Nil, seen |-> <<>>]
    ELSE LET r == VerbatimCopy(zw, files, Head(names), Head(outs)) IN
         IF r.status # "ok"
         THEN [zw |-> r.zw, status |-> r.status, err |-> r.err, seen |-> <<r.tag>>]
         ELSE LET rest == CopyResources(r.zw, files, Tail(names), Tail(outs)) IN
              [rest EXCEPT !.seen = <<r.tag>> \o @]

\* SeedNames with the two copy phases in the other order
SeedNamesResourcesFirst(files, m) ==
    Hrefs(m.Resources)
        \o (IF FileIndex(files, W3CManifestName) # 0 THEN <<W3CManifestName>> ELSE <<>>)

\* the names NewWriter copies, in order: the W3C manifest if the source has it, then
\* the hrefs of manifest.Resources
SeedNames(files, m) ==
    (IF FileIndex(files, W3CManifestName) # 0 THEN <<W3CManifestName>> ELSE <<>>)
        \o Hrefs(m.Resources)

\* the outcomes the copy of the entry called name can have
NameOutcomes(files, name) ==
    LET i == FileIndex(files, name) IN
    CopyOutcomes(IF i = 0 THEN <<>> ELSE files[i].data)

\* lines 70-71: the writer's manifest is a copy of the reader's, reading order nil
WriterManifest(m) == [m EXCEPT !.ReadingOrder = <<>>]

NewWriter ==
    /\ phase = "reader"
    /\ LET names == SeedNames(zipArchive, readerManifest)
           all == UNION {NameOutcomes(zipArchive, n) : n \in Range(names)}
       IN \E outs \in [1..Len(names) -> all] :
            /\ \A i \in 1..Len(names) : outs[i] \in NameOutcomes(zipArchive, names[i])
            /\ LET r == CopyResources(<<>>, zipArchive, names, outs) IN
               /\ zipWriter' = r.zw
               /\ phase' = CASE r.status = "ok" -> "writing"
                             [] r.status = "error" -> "newwriter_failed"
                             [] OTHER -> "panicked"
               /\ manifest' = IF r.status = "ok" THEN WriterManifest(readerManifest)
                              ELSE manifest
               /\ lastOp' = [op |-> "NewWriter", status |-> r.status, err |-> r.err,
                             seen |-> r.seen]
    /\ UNCHANGED <<zipArchive, openErr, readerManifest, newFileCalls, created,
                   markedPaths, markLog, passFailed>>
    /\ UNCHANGED xmlVars

(***************************************************************************)
(* RWPPWriter.NewFile                                                      *)
(***************************************************************************)
\* zipWriter.CreateHeader: a new entry of that name, or nothing when it fails
CreateHeader(zw, name, err) == IF err = Nil THEN Append(zw, Entry(name, <<>>)) ELSE zw

\* NewFileManifest with the link put in front of the reading order
NewFileManifestPrepend(m, path, contentType, err) ==
    [m EXCEPT !.ReadingOrder = <<Link(path, contentType)>> \o @]

\* lines 155-158: the link is appended whatever CreateHeader returned
NewFileManifest(m, path, contentType, err) ==
    [m EXCEPT !.ReadingOrder = Append(@, Link(path, contentType))]

NewFile(path, contentType) ==
    /\ phase = "writing"
    /\ Len(newFileCalls) < MaxFiles
    /\ \E err \in {Nil, "create_err"} :
        /\ zipWriter' = CreateHeader(zipWriter, path, err)
        /\ manifest' = NewFileManifest(manifest, path, contentType, err)
        /\ created' = IF err = Nil THEN Append(created, path) ELSE created
        /\ passFailed' = (passFailed \/ err # Nil)
        /\ lastOp' = [op |-> "NewFile", err |-> err]
    /\ newFileCalls' = Append(newFileCalls, path)
    /\ UNCHANGED <<zipArchive, phase, openErr, readerManifest, markedPaths, markLog>>
    /\ UNCHANGED xmlVars

(***************************************************************************)
(* RWPPWriter.MarkAsEncrypted (originalSize is not used by the code)       *)
(***************************************************************************)
\* the index of the first link whose Href is path, 0 when there is none
FirstMatch(links, path) ==
    IF \E i \in 1..Len(links) : links[i].Href = path
    THEN CHOOSE i \in 1..Len(links) :
            /\ links[i].Href = path
            /\ \A j \in 1..(i - 1) : links[j].Href # path
    ELSE 0

\* MarkReadingOrder without the break: every link of that href is marked
MarkEveryMatch(links, path, profile, algorithm) ==
    [i \in 1..Len(links) |->
        IF links[i].Href = path
        THEN WithEncrypted(links[i], Encrypted(profile, algorithm))
        ELSE links[i]]

\* lines 167-181: the reading order after the scan
MarkReadingOrder(links, path, profile, algorithm) ==
    LET i == FirstMatch(links, path) IN
    IF i = 0 THEN links
    ELSE [links EXCEPT ![i] = WithEncrypted(@, Encrypted(profile, algorithm))]

MarkAsEncrypted(path, profile, algorithm) ==
    /\ phase = "writing"
    /\ manifest' = [manifest EXCEPT
                      !.ReadingOrder = MarkReadingOrder(@, path, profile, algorithm)]
    /\ markedPaths' = markedPaths \cup {path}
    /\ markLog' = IF path \in Range(newFileCalls)
                  THEN [markLog EXCEPT
                          ![path] = <<[Profile |-> profile, Algorithm |-> algorithm]>>]
                  ELSE markLog
    /\ lastOp' = [op |-> "MarkAsEncrypted"]
    /\ UNCHANGED <<zipArchive, phase, openErr, readerManifest, zipWriter,
                   newFileCalls, created, passFailed>>
    /\ UNCHANGED xmlVars

(***************************************************************************)
(* Streams and archive handles.  An operation's run is the sequence of the *)
(* handles it opens and closes, deferred closes last; a Close that returns *)
(* an error has still released its handle.                                 *)
(***************************************************************************)
Opened(h) == [ev |-> "open", h |-> h]
Closed(h) == [ev |-> "close", h |-> h]

\* the handles a run leaves open
RECURSIVE StillOpen(_)
StillOpen(run) ==
    IF run = <<>> THEN {}
    ELSE LET earlier == StillOpen(Prefix(run, Len(run) - 1))
             last == run[Len(run)]
         IN IF last.ev = "open" THEN earlier \cup {last.h} ELSE earlier \ {last.h}

\* the handles an operation opened and neither closed nor handed to its caller
Leaked(run, handed) == StillOpen(run) \ handed

(***************************************************************************)
(* Resources and rwpResource.CopyTo                                        *)
(***************************************************************************)
\* ResourcesOf with the ancillary links listed after those of the reading order
ResourcesOfAllLinks(files, m) ==
    LET links == m.ReadingOrder \o m.Resources IN
    [i \in 1..Len(links) |->
        [file |-> FileIndex(files, links[i].Href),
         isEncrypted |-> IsEncrypted(links[i]),
         contentType |-> links[i].Type]]

\* RWPPReader.Resources: one rwpResource per link of the reading order; file is the
\* index in the archive of files[Href], 0 for the nil pointer of a missing key
ResourcesOf(files, m) ==
    [i \in 1..Len(m.ReadingOrder) |->
        [file |-> FileIndex(files, m.ReadingOrder[i].Href),
         isEncrypted |-> IsEncrypted(m.ReadingOrder[i]),
         contentType |-> m.ReadingOrder[i].Type]]

\* NopWriteCloser.Close
NopWriteCloserClose == Nil

\* what wc.Close() can return: Nil for the NopWriteCloser of RWPPWriter.NewFile, an
\* error for the stream of another PackageWriter (CopyTo takes the interface)
WCloseOutcomes == {NopWriteCloserClose, "wclose_err"}

\* CopyToReturn with the two close errors tested in the other order
CopyToReturnDestinationFirst(err, rCloseError, wCloseError) ==
    IF err # Nil THEN err
    ELSE IF wCloseError # Nil THEN wCloseError
    ELSE rCloseError

\* lines 131-139: the error CopyTo returns once both streams were closed
CopyToReturn(err, rCloseError, wCloseError) ==
    IF err # Nil THEN err
    ELSE IF rCloseError # Nil THEN rCloseError
    ELSE wCloseError

\* the content of the last entry of zw replaced: what io.Copy wrote through wc
WriteLast(zw, data) == [zw EXCEPT ![Len(zw)].data = data]

\* the I/O outcomes of one CopyTo of a file: CreateHeader, file.Open, io.Copy (with
\* the number of bytes transferred before it failed), rc.Close, wc.Close
CopyToOutcomes(file) ==
    {io \in [create : {Nil, "create_err"}, open : {Nil, "open_err"},
             copy : {Nil, "copy_err"}, n : 0..Len(file.data),
             rclose : {Nil, "rclose_err"}, wclose : WCloseOutcomes] :
        /\ (io.copy = Nil => io.n = Len(file.data))
        /\ (io.create # Nil =>
                io.open = Nil /\ io.copy = Nil /\ io.rclose = Nil /\ io.wclose = Nil)
        /\ (io.open # Nil => io.copy = Nil /\ io.rclose = Nil /\ io.wclose = Nil)}

\* lines 115-140 for a resource whose file is not nil: the destination, the working
\* manifest and the error returned
CopyToRun(zw, m, file, contentType, io) ==
    LET zw1 == CreateHeader(zw, file.Name, io.create)
        m1 == NewFileManifest(m, file.Name, contentType, io.create)
    IN IF io.create # Nil
       THEN [zw |-> zw1, manifest |-> m1, ret |-> io.create,
             created |-> FALSE, opened |-> FALSE]
       ELSE IF io.open # Nil
       THEN [zw |-> zw1, manifest |-> m1, ret |-> io.open,
             created |-> TRUE, opened |-> FALSE]
       ELSE [zw |-> WriteLast(zw1, Prefix(file.data, io.n)), manifest |-> m1,
             ret |-> CopyToReturn(io.copy, io.rclose, io.wclose),
             created |-> TRUE, opened |-> TRUE]

\* lines 115-129: the streams CopyTo opens and closes.  wc is the destination entry
\* stream of NewFile, rc the source entry stream; rc is closed at line 128 and again
\* by the defer of line 124; the return of line 122 closes nothing.
CopyToHandles(io) ==
    IF io.create # Nil THEN <<>>
    ELSE IF io.open # Nil THEN <<Opened("wc")>>
    ELSE <<Opened("wc"), Opened("rc"), Closed("rc"), Closed("wc"), Closed("rc")>>

\* resource.Path() dereferences resource.file: a nil file panics before NewFile
CopyToPanic(i) ==
    /\ phase = "writing"
    /\ Len(newFileCalls) < MaxFiles
    /\ ResourcesOf(zipArchive, readerManifest)[i].file = 0
    /\ phase' = "panicked"
    /\ lastOp' = [op |-> "CopyTo", opened |-> FALSE, ret |-> "panic", leaked |-> {}]
    /\ UNCHANGED <<zipArchive, openErr, readerManifest, manifest, zipWriter,
                   newFileCalls, created, markedPaths, markLog, passFailed>>
    /\ UNCHANGED xmlVars

CopyTo(i) ==
    /\ phase = "writing"
    /\ Len(newFileCalls) < MaxFiles
    /\ ResourcesOf(zipArchive, readerManifest)[i].file # 0
    /\ LET resource == ResourcesOf(zipArchive, readerManifest)[i]
           file == zipArchive[resource.file]
       IN \E io \in CopyToOutcomes(file) :
            LET r == CopyToRun(zipWriter, manifest, file, resource.contentType, io) IN
            /\ zipWriter' = r.zw
            /\ manifest' = r.manifest
            /\ newFileCalls' = Append(newFileCalls, file.Name)
            /\ created' = IF r.created THEN Append(created, file.Name) ELSE created
            /\ passFailed' = (passFailed \/ r.ret # Nil)
            /\ lastOp' = [op |-> "CopyTo", opened |-> r.opened, err |-> io.copy,
                          rCloseError |-> io.rclose, wCloseError |-> io.wclose,
                          ret |-> r.ret, leaked |-> Leaked(CopyToHandles(io), {})]
    /\ UNCHANGED <<zipArchive, phase, openErr, readerManifest, markedPaths, markLog>>
    /\ UNCHANGED xmlVars

(***************************************************************************)
(* RWPPWriter.Close                                                        *)
(***************************************************************************)
\* writeManifest: create the manifest.json entry and encode the manifest into it
WriteManifest(zw, m, createErr, encodeErr) ==
    IF createErr # Nil THEN [zw |-> zw, err |-> createErr]
    ELSE [zw |-> Append(zw, ManifestEntry(IF encodeErr = Nil THEN <<m>> ELSE <<>>)),
          err |-> encodeErr]

\* lines 198-205: whether zipWriter.Close() is called, and the error returned
CloseRun(manifestErr, closeErr) ==
    IF manifestErr # Nil THEN [closeCalled |-> FALSE, ret |-> manifestErr]
    ELSE [closeCalled |-> TRUE, ret |-> closeErr]

Close ==
    /\ phase = "writing"
    /\ \E createErr \in {Nil, "create_err"}, encodeErr \in {Nil, "encode_err"},
          closeErr \in {Nil, "zipclose_err"} :
        /\ (createErr # Nil => encodeErr = Nil)
        /\ LET w == WriteManifest(zipWriter, manifest, createErr, encodeErr)
               r == CloseRun(w.err, closeErr)
           IN /\ (~r.closeCalled => closeErr = Nil)
              /\ zipWriter' = w.zw
              /\ lastOp' = [op |-> "Close", manifestErr |-> w.err,
                            closeCalled |-> r.closeCalled,
                            closeErr |-> closeErr, ret |-> r.ret]
    /\ phase' = "closed"
    /\ UNCHANGED <<zipArchive, openErr, readerManifest, manifest, newFileCalls,
                   created, markedPaths, markLog, passFailed>>
    /\ UNCHANGED xmlVars

(***************************************************************************)
(* RWPPReader.Resources and the accessors of rwpResource                   *)
(***************************************************************************)
\* the phases in which the driver holds a reader
ReaderPhases == {"reader", "writing", "newwriter_failed", "closed"}

Resources ==
    /\ phase \in ReaderPhases
    /\ lastOp' = [op |-> "Resources", result |-> ResourcesOf(zipArchive, readerManifest)]
    /\ UNCHANGED <<zipArchive, phase, openErr, readerManifest, manifest, zipWriter,
                   newFileCalls, created, markedPaths, markLog, passFailed>>
    /\ UNCHANGED xmlVars

\* resource.file.Name and int64(resource.file.UncompressedSize64): a nil file panics
ResourcePath(files, resource) ==
    IF resource.file = 0 THEN [panic |-> TRUE, ret |-> ""]
    ELSE [panic |-> FALSE, ret |-> files[resource.file].Name]

ResourceSize(files, resource) ==
    IF resource.file = 0 THEN [panic |-> TRUE, ret |-> 0]
    ELSE [panic |-> FALSE, ret |-> Len(files[resource.file].data)]

Path(i) ==
    /\ phase \in {"reader", "writing"}
    /\ LET r == ResourcePath(zipArchive, ResourcesOf(zipArchive, readerManifest)[i]) IN
        /\ lastOp' = [op |-> "Path", panic |-> r.panic, ret |-> r.ret]
        /\ phase' = IF r.panic THEN "panicked" ELSE phase
    /\ UNCHANGED <<zipArchive, openErr, readerManifest, manifest, zipWriter,
                   newFileCalls, created, markedPaths, markLog, passFailed>>
    /\ UNCHANGED xmlVars

Size(i) ==
    /\ phase \in {"reader", "writing"}
    /\ LET r == ResourceSize(zipArchive, ResourcesOf(zipArchive, readerManifest)[i]) IN
        /\ lastOp' = [op |-> "Size", panic |-> r.panic, ret |-> r.ret]
        /\ phase' = IF r.panic THEN "panicked" ELSE phase
    /\ UNCHANGED <<zipArchive, openErr, readerManifest, manifest, zipWriter,
                   newFileCalls, created, markedPaths, markLog, passFailed>>
    /\ UNCHANGED xmlVars

(***************************************************************************)
(* OpenRWPP: zip.OpenReader, then NewRWPPReader on the archive it opened.  *)
(***************************************************************************)
\* lines 213-230: the manifest entry stream NewRWPPReader opens and closes
ReadManifestHandles(files, openOutcome) ==
    IF FindManifest(files) = 0 \/ openOutcome # Nil THEN <<>>
    ELSE <<Opened("fileReader"), Closed("fileReader")>>

\* lines 243-248: the error and manifest returned, and the handles of the run; the
\* archive handle is never closed here
OpenRWPPRun(files, readerOutcome, openOutcome) ==
    IF readerOutcome # Nil
    THEN [err |-> readerOutcome, manifest |-> NoManifest, handles |-> <<>>]
    ELSE LET r == ReadManifest(files, openOutcome) IN
         [err |-> r.err, manifest |-> r.manifest,
          handles |-> <<Opened("zipArchive")>> \o ReadManifestHandles(files, openOutcome)]

OpenRWPP ==
    /\ phase = "init"
    /\ \E readerOutcome \in {Nil, "openreader_err"}, openOutcome \in {Nil, "open_err"} :
        /\ (readerOutcome # Nil => openOutcome = Nil)
        /\ LET r == OpenRWPPRun(zipArchive, readerOutcome, openOutcome) IN
            /\ openErr' = r.err
            /\ readerManifest' = r.manifest
            /\ phase' = IF r.err = Nil THEN "reader" ELSE "open_failed"
            /\ lastOp' = [op |-> "OpenRWPP", err |-> r.err,
                          leaked |-> Leaked(r.handles,
                                            IF r.err = Nil THEN {"zipArchive"} ELSE {})]
    /\ UNCHANGED <<zipArchive, manifest, zipWriter, newFileCalls, created,
                   markedPaths, markLog, passFailed>>
    /\ UNCHANGED xmlVars

(***************************************************************************)
(* BuildRWPPFromPDF.  failure names the call that fails: os.Create,        *)
(* os.Open, io.Copy, zipWriter.Create of the manifest entry (which flushes *)
(* the entry before it), tmpl.Execute, zipWriter.Close; Nil when none      *)
(* does.  Creating the first entry of a new archive and parsing the fixed  *)
(* template do not fail.                                                   *)
(***************************************************************************)
PdfName == "publication.pdf"
PdfData == <<6>>
Titles == {"Title", "A \"quoted\" title"}
BuildFailures ==
    {Nil, "create_file", "open_input", "copy", "create_manifest", "execute", "close"}

\* what the manifest entry decodes to: the title is put between the quotes of
\* "title" as it is, a title with a quote in it leaves a text that does not decode
PdfManifest(title) ==
    IF title = "Title"
    THEN <<Publication(<<Link(PdfName, "application/pdf")>>, <<>>)>>
    ELSE <<>>

\* the steps of lines 255-315, in order
BuildSteps == <<"create_file", "open_input", "copy", "create_manifest", "execute", "close">>

\* the call named step was reached and did not fail
Passed(failure, step) ==
    \/ failure = Nil
    \/ \E i, j \in 1..Len(BuildSteps) :
        BuildSteps[i] = step /\ BuildSteps[j] = failure /\ i < j

\* the entries of the output archive: publication.pdf once the file was created, with
\* the n bytes io.Copy transferred; manifest.json once its entry was created
BuildEntries(title, failure, n) ==
    (IF Passed(failure, "create_file")
     THEN <<Entry(PdfName, IF Passed(failure, "copy") THEN PdfData
                           ELSE IF failure = "copy" THEN Prefix(PdfData, n) ELSE <<>>)>>
     ELSE <<>>)
    \o (IF Passed(failure, "create_manifest")
        THEN <<ManifestEntry(IF Passed(failure, "execute") THEN PdfManifest(title)
                             ELSE <<>>)>>
        ELSE <<>>)

\* the handles of the run: f is closed by the defer of line 259, inputFile by the
\* defer of line 272; zipWriter is closed on the returns of lines 269, 276, 305, 311
\* and 315, and not on the return of line 300
BuildHandles(failure) ==
    IF failure = "create_file" THEN <<>>
    ELSE <<Opened("f"), Opened("zipWriter")>>
         \o (IF Passed(failure, "open_input") THEN <<Opened("inputFile")>> ELSE <<>>)
         \o (IF failure # "create_manifest" THEN <<Closed("zipWriter")>> ELSE <<>>)
         \o (IF Passed(failure, "open_input") THEN <<Closed("inputFile")>> ELSE <<>>)
         \o <<Closed("f")>>

BuildRWPPFromPDF(title) ==
    /\ phase = "init"
    /\ \E failure \in BuildFailures, n \in 0..Len(PdfData) :
        /\ (failure # "copy" => n = Len(PdfData))
        /\ (failure = "copy" => n < Len(PdfData))
        /\ zipWriter' = BuildEntries(title, failure, n)
        /\ lastOp' = [op |-> "BuildRWPPFromPDF", ret |-> failure,
                      leaked |-> Leaked(BuildHandles(failure), {})]
    /\ phase' = "built"
    /\ UNCHANGED <<zipArchive, openErr, readerManifest, manifest, newFileCalls,
                   created, markedPaths, markLog, passFailed>>
    /\ UNCHANGED xmlVars

(***************************************************************************)
(* xmlenc.Manifest.DataForFile.  A string is a sequence of characters; the *)
(* paths are drawn from an alphabet with a letter, the space, the percent  *)
(* sign, two hex digits and the two delimiters url.Parse cuts at.  With no *)
(* ':' and no '/' in a path, url.Parse finds no scheme and no host.        *)
(***************************************************************************)
Chars == {"x", " ", "%", "2", "0", "?", "#"}

\* ishex, over the alphabet
IsHex(c) == c \in {"2", "0"}

\* strings.Cut(s, sep): before and after the first sep, all of s when there is none
CutBefore(s, sep) ==
    IF \E i \in 1..Len(s) : s[i] = sep
    THEN Prefix(s, (CHOOSE i \in 1..Len(s) :
                        s[i] = sep /\ \A j \in 1..(i - 1) : s[j] # sep) - 1)
    ELSE s

CutAfter(s, sep) ==
    IF \E i \in 1..Len(s) : s[i] = sep
    THEN SubSeq(s, (CHOOSE i \in 1..Len(s) :
                        s[i] = sep /\ \A j \in 1..(i - 1) : s[j] # sep) + 1, Len(s))
    ELSE <<>>

\* the byte a %XY escape stands for: 0x20 is the space; 0x00, 0x02 and 0x22 are
\* bytes outside the alphabet
UnhexByte(h1, h2) ==
    CASE h1 = "2" /\ h2 = "0" -> " "
      [] h1 = "0" /\ h2 = "0" -> "<00>"
      [] h1 = "0" /\ h2 = "2" -> "<02>"
      [] OTHER -> "<22>"

\* url.unescape in path and fragment mode: every %XY becomes its byte; a '%' not
\* followed by two hex digits is an EscapeError
RECURSIVE Unescape(_)
Unescape(s) ==
    IF s = <<>> THEN [ok |-> TRUE, s |-> <<>>]
    ELSE IF Head(s) = "%"
    THEN IF Len(s) < 3 \/ ~IsHex(s[2]) \/ ~IsHex(s[3])
         THEN [ok |-> FALSE, s |-> <<>>]
         ELSE LET r == Unescape(SubSeq(s, 4, Len(s))) IN
              [ok |-> r.ok, s |-> IF r.ok THEN <<UnhexByte(s[2], s[3])>> \o r.s ELSE <<>>]
    ELSE LET r == Unescape(Tail(s)) IN
         [ok |-> r.ok, s |-> IF r.ok THEN <<Head(s)>> \o r.s ELSE <<>>]

\* url.shouldEscape(c, encodePath): letters and digits are kept
ShouldEscape(c) == c \notin {"x", "2", "0"}

\* the %XY form of a byte that is escaped
EscapeByte(c) ==
    CASE c = " " -> <<"%", "2", "0">>
      [] c = "<00>" -> <<"%", "0", "0">>
      [] c = "<02>" -> <<"%", "0", "2">>
      [] c = "<22>" -> <<"%", "2", "2">>
      [] c = "%" -> <<"%", "2", "5">>
      [] c = "?" -> <<"%", "3", "F">>
      [] OTHER -> <<"%", "2", "3">>

\* url.escape(s, encodePath)
RECURSIVE Escape(_)
Escape(s) ==
    IF s = <<>> THEN <<>>
    ELSE (IF ShouldEscape(Head(s)) THEN EscapeByte(Head(s)) ELSE <<Head(s)>>)
            \o Escape(Tail(s))

\* url.validEncoded(s, encodePath): '%' and the characters that need no escape
ValidEncoded(s) == \A i \in 1..Len(s) : s[i] = "%" \/ ~ShouldEscape(s[i])

\* url.Parse: cut the fragment at '#' and the query at '?', unescape the rest into
\* Path (keeping it in RawPath when it is not the default encoding of Path), then
\* unescape the fragment
UrlParse(rawURL) ==
    LET rest == CutBefore(CutBefore(rawURL, "#"), "?")
        frag == CutAfter(rawURL, "#")
        path == Unescape(rest)
    IN IF ~path.ok \/ ~Unescape(frag).ok
       THEN [ok |-> FALSE, Path |-> <<>>, RawPath |-> <<>>]
       ELSE [ok |-> TRUE, Path |-> path.s,
             RawPath |-> IF rest = Escape(path.s) THEN <<>> ELSE rest]

\* URL.EscapedPath: RawPath when it is a valid encoding of Path, else escape(Path)
EscapedPath(u) ==
    IF u.RawPath # <<>> /\ ValidEncoded(u.RawPath)
       /\ Unescape(u.RawPath).ok /\ Unescape(u.RawPath).s = u.Path
    THEN u.RawPath
    ELSE Escape(u.Path)

\* an EncryptedData record: CipherData.CipherReference.URI, and its Id attribute
Datum(uri, id) == [URI |-> uri, ID |-> id]

\* Data{}
ZeroDatum == Datum(<<>>, "")

\* ScanData without the early return: the last record whose URI is uri
RECURSIVE ScanDataLast(_, _)
ScanDataLast(data, uri) ==
    IF data = <<>> THEN [datum |-> ZeroDatum, found |-> FALSE]
    ELSE LET rest == ScanDataLast(Tail(data), uri) IN
         IF rest.found THEN rest
         ELSE IF Head(data).URI = uri THEN [datum |-> Head(data), found |-> TRUE]
         ELSE rest

\* lines 29-35: the first record whose URI is uri
RECURSIVE ScanData(_, _)
ScanData(data, uri) ==
    IF data = <<>> THEN [datum |-> ZeroDatum, found |-> FALSE]
    ELSE IF Head(data).URI = uri THEN [datum |-> Head(data), found |-> TRUE]
    ELSE ScanData(Tail(data), uri)

\* Manifest.DataForFile as a function of the records and the path
DataForFileOf(data, path) ==
    LET fileUri == UrlParse(path) IN
    IF ~fileUri.ok THEN [datum |-> ZeroDatum, found |-> FALSE]
    ELSE ScanData(data, EscapedPath(fileUri))

DataForFile ==
    /\ xmlResult = <<>>
    /\ xmlResult' = <<DataForFileOf(xmlData, xmlPath)>>
    /\ UNCHANGED <<xmlData, xmlPath>>
    /\ UNCHANGED packVars

\* the inputs of DataForFile
Strings(n) == UNION {[1..k -> Chars] : k \in 0..n}
RecordURIs == { <<"x">>, <<"x", " ">>, <<"x", "%", "2", "0">> }
Records == {Datum(uri, id) : uri \in RecordURIs, id \in {"d1", "d2"}}
Manifests == UNION {[1..k -> Records] : k \in 0..MaxRecords}

Init ==
    /\ \E archive \in SourceArchives : InitPack(archive)
    /\ InitXml(<<>>, <<>>)

Next ==
    \/ NewRWPPReader
    \/ NewWriter
    \/ \E path \in Paths, contentType \in ContentTypes : NewFile(path, contentType)
    \/ \E path \in MarkPaths, profile \in Profiles, algorithm \in Algorithms :
         MarkAsEncrypted(path, profile, algorithm)
    \/ \E i \in 1..Len(readerManifest.ReadingOrder) : CopyToPanic(i)
    \/ \E i \in 1..Len(readerManifest.ReadingOrder) : CopyTo(i)
    \/ Close

\* the package reader and writer
Spec == Init /\ [][Next]_vars

InitXmlenc ==
    /\ InitPack(ScenarioArchive)
    /\ \E data \in Manifests, path \in Strings(MaxPathLen) : InitXml(data, path)

NextXmlenc == DataForFile

\* DataForFile on every encryption manifest and path of the bounds
SpecXmlenc == InitXmlenc /\ [][NextXmlenc]_vars

\* a reading order whose first link has Properties without an encryption record
PropertiesOnlyPublication ==
    Publication(
        <<[Link("a.html", "text/html") EXCEPT !.Properties = <<[Encrypted |-> <<>>]>>],
          WithEncrypted(Link("b.html", "text/html"), Encrypted("basic", "AES-CBC"))>>,
        <<Link("styles.css", "text/css")>>)

\* the source archives of the driver: without manifest.json, with one that does not
\* decode, and with one that decodes: every href an entry, a reading order href that
\* names no entry, an ancillary href that names no entry
DriverArchives ==
    { SourceContent,
      <<ManifestEntry(<<>>)>> \o SourceContent,
      <<ManifestEntry(<<PropertiesOnlyPublication>>)>> \o SourceContent,
      <<ManifestEntry(<<MissingContentPublication>>)>> \o SourceContent,
      <<W3CEntry, ManifestEntry(<<MissingResourcePublication>>)>> \o SourceContent }

InitDriver ==
    /\ \E archive \in DriverArchives : InitPack(archive)
    /\ InitXml(<<>>, <<>>)

NextDriver ==
    \/ Next
    \/ OpenRWPP
    \/ \E title \in Titles : BuildRWPPFromPDF(title)
    \/ Resources
    \/ \E i \in 1..Len(readerManifest.ReadingOrder) : Path(i)
    \/ \E i \in 1..Len(readerManifest.ReadingOrder) : Size(i)

\* the reader and writer with the file-level operations and the resource accessors
SpecDriver == InitDriver /\ [][NextDriver]_vars

(***************************************************************************)
(* Properties                                                              *)
(***************************************************************************)
\* Close encoded the working manifest into the manifest.json entry
HasCommitted == phase = "closed" /\ lastOp.manifestErr = Nil

\* the manifest Close committed: what the last entry of the destination decodes to
Committed == zipWriter[Len(zipWriter)].json[1]

\* C1, as stated: after Close, the reading order of the committed manifest holds
\* exactly the paths passed to NewFile, in call order, and a link carries an
\* encryption record iff MarkAsEncrypted was called for the link's path.
C1_EncryptedIffMarked ==
    HasCommitted =>
        LET ro == Committed.ReadingOrder IN
        /\ Hrefs(ro) = newFileCalls
        /\ \A i \in 1..Len(ro) : IsEncrypted(ro[i]) <=> ro[i].Href \in markedPaths

\* C1, amended: after Close, the reading order of the committed manifest holds
\* exactly the paths passed to NewFile, in call order, and a link carries an
\* encryption record iff it is the first link of its href and MarkAsEncrypted was
\* called for that href after the NewFile that appended the link; the record then
\* holds the fixed scheme and the profile and algorithm of the last such call.
C1_FirstLinkEncryptedIffMarkedAfter ==
    HasCommitted =>
        LET ro == Committed.ReadingOrder IN
        /\ Hrefs(ro) = newFileCalls
        /\ \A i \in 1..Len(ro) :
            LET first == \A j \in 1..(i - 1) : newFileCalls[j] # newFileCalls[i]
                log == markLog[newFileCalls[i]]
            IN ro[i].Properties =
                IF first /\ log # <<>>
                THEN <<[Encrypted |->
                          <<[Scheme |-> "http://readium.org/2014/01/lcp",
                             Profile |-> log[1].Profile,
                             Algorithm |-> log[1].Algorithm]>>]>>
                ELSE <<>>

\* C1 witness: a committed manifest with two links of one href, the first encrypted
\* and the second not
C1_Witness ==
    /\ HasCommitted
    /\ Len(Committed.ReadingOrder) = 2
    /\ Committed.ReadingOrder[1].Href = Committed.ReadingOrder[2].Href
    /\ IsEncrypted(Committed.ReadingOrder[1])
    /\ ~IsEncrypted(Committed.ReadingOrder[2])

\* C2: the working reading order has exactly one link per entry NewFile created in
\* the destination archive, in creation order.
C2_ReadingOrderIsCreatedEntries ==
    phase \in {"writing", "closed"} => Hrefs(manifest.ReadingOrder) = created

\* C3: when writing the manifest fails Close still closes the archive and returns
\* the manifest error; an archive-close error is returned only when the manifest was
\* written; Close never returns success when a step failed.
C3_CloseAlwaysClosesArchive ==
    lastOp.op = "Close" =>
        /\ (lastOp.manifestErr # Nil =>
                lastOp.closeCalled /\ lastOp.ret = lastOp.manifestErr)
        /\ (lastOp.closeErr # Nil /\ lastOp.ret = lastOp.closeErr =>
                lastOp.manifestErr = Nil)
        /\ (lastOp.ret = Nil => lastOp.manifestErr = Nil /\ lastOp.closeErr = Nil)

\* C4: once CopyTo created the destination entry and opened the source stream, it
\* returns the first error, in the order transfer, source close, destination close,
\* and nil only when all three succeeded.
C4_CopyToErrorPrecedence ==
    (lastOp.op = "CopyTo" /\ lastOp.opened) =>
        LET errs == <<lastOp.err, lastOp.rCloseError, lastOp.wCloseError>> IN
        /\ \A i \in 1..3 :
            (errs[i] # Nil /\ \A j \in 1..(i - 1) : errs[j] = Nil) => lastOp.ret = errs[i]
        /\ (lastOp.ret = Nil <=> \A i \in 1..3 : errs[i] = Nil)

\* C4 witness: the transfer succeeded, both closes failed, the source-close error
\* was returned
C4_Witness ==
    /\ lastOp.op = "CopyTo"
    /\ lastOp.opened
    /\ lastOp.err = Nil
    /\ lastOp.rCloseError = "rclose_err"
    /\ lastOp.wCloseError = "wclose_err"
    /\ lastOp.ret = "rclose_err"

\* C5: once NewWriter returned a writer, for every ancillary resource of the source
\* manifest the destination holds an entry of the same name and bytes, and the
\* ancillary links of the working and of the committed manifest are those of the
\* source, with no encryption record.
C5_AncillaryCopiedVerbatim ==
    phase \in {"writing", "closed"} =>
        /\ \A i \in 1..Len(readerManifest.Resources) :
            LET href == readerManifest.Resources[i].Href IN
            \E k \in 1..Len(zipWriter) :
                /\ zipWriter[k].Name = href
                /\ \E f \in 1..Len(zipArchive) :
                    zipArchive[f].Name = href /\ zipWriter[k].data = zipArchive[f].data
        /\ manifest.Resources = readerManifest.Resources
        /\ \A i \in 1..Len(manifest.Resources) : ~IsEncrypted(manifest.Resources[i])
        /\ (HasCommitted => Committed.Resources = readerManifest.Resources)

\* the entries the source has w of, and the n ancillary hrefs of its manifest
ExpectedSeed ==
    (IF \E f \in 1..Len(zipArchive) : zipArchive[f].Name = W3CManifestName
     THEN <<W3CManifestName>> ELSE <<>>)
        \o [i \in 1..Len(readerManifest.Resources) |-> readerManifest.Resources[i].Href]

\* C6: after NewWriter, k NewFile or CopyTo passes that all succeeded and a Close
\* that succeeded, the destination holds w + n + k + 1 entries: the W3C manifest if
\* the source has one, the ancillary resources in manifest order, the k content
\* entries in call order, the manifest last; 4 entries for the scenario.
C6_ArchiveLayout ==
    (phase = "closed" /\ lastOp.ret = Nil /\ ~passFailed) =>
        /\ Names(zipWriter) = ExpectedSeed \o newFileCalls \o <<"manifest.json">>
        /\ Len(zipWriter) = Len(ExpectedSeed) + Len(newFileCalls) + 1
        /\ (zipArchive = ScenarioArchive /\ Len(newFileCalls) = 2 => Len(zipWriter) = 4)

\* C6 witness: the scenario, closed with success after the passes of a.html, b.html
C6_Witness ==
    /\ phase = "closed"
    /\ lastOp.ret = Nil
    /\ ~passFailed
    /\ zipArchive = ScenarioArchive
    /\ newFileCalls = <<"a.html", "b.html">>
    /\ Names(zipWriter) = <<"styles.css", "a.html", "b.html", "manifest.json">>

\* the records whose URI is the escaped-path form of the path DataForFile was given
XmlMatches ==
    LET u == UrlParse(xmlPath) IN
    IF u.ok THEN {i \in 1..Len(xmlData) : xmlData[i].URI = EscapedPath(u)} ELSE {}

\* what DataForFile returned, once it was called
C7_Result ==
    xmlResult # <<>> =>
        /\ (xmlData = <<>> => ~xmlResult[1].found)
        /\ (XmlMatches = {} => ~xmlResult[1].found /\ xmlResult[1].datum = ZeroDatum)
        /\ (XmlMatches # {} =>
                /\ xmlResult[1].found
                /\ \E i \in XmlMatches :
                    /\ xmlResult[1].datum = xmlData[i]
                    /\ \A j \in XmlMatches : i <= j)

\* C7: DataForFile returns not-found on a manifest without records, the record
\* whose URI equals the escaped-path form of the path when there is one, the first
\* of them in record order when there are several, and leaves the manifest as it was.
C7_DataForFileFirstMatch == [](C7_Result) /\ [][xmlData' = xmlData]_vars

\* C7 witness: two records match the escaped form of "x ", the first was returned;
\* its URI is not the path itself
C7_Witness ==
    /\ xmlResult # <<>>
    /\ xmlPath = <<"x", " ">>
    /\ Len(xmlData) = 2
    /\ xmlData[1] = Datum(<<"x", "%", "2", "0">>, "d2")
    /\ xmlData[2] = Datum(<<"x", "%", "2", "0">>, "d1")
    /\ xmlResult[1] = [datum |-> xmlData[1], found |-> TRUE]

\* C8: NewRWPPReader fails with "Could not find manifest" iff no entry is named
\* manifest.json; when the entry cannot be opened or decoded it fails with that
\* error; a reader is returned only for a manifest found and decoded, and holds it.
C8_OpenResult ==
    phase # "init" =>
        LET found == \E f \in 1..Len(zipArchive) : zipArchive[f].Name = "manifest.json"
            first == CHOOSE f \in 1..Len(zipArchive) :
                        /\ zipArchive[f].Name = "manifest.json"
                        /\ \A g \in 1..(f - 1) : zipArchive[g].Name # "manifest.json"
        IN /\ (openErr = "Could not find manifest" <=> ~found)
           /\ (phase = "open_failed" <=> openErr # Nil)
           /\ (lastOp.op = "NewRWPPReader" /\ found =>
                 /\ (lastOp.open # Nil => openErr = lastOp.open)
                 /\ (lastOp.open = Nil /\ zipArchive[first].json = <<>> =>
                        openErr = "decode_err"))
           /\ (openErr = Nil =>
                 /\ found
                 /\ zipArchive[first].json # <<>>
                 /\ readerManifest = zipArchive[first].json[1])

\* C8 witness: an archive without manifest.json was refused
C8_Witness ==
    /\ phase = "open_failed"
    /\ openErr = "Could not find manifest"
    /\ \A f \in 1..Len(zipArchive) : zipArchive[f].Name # "manifest.json"

\* what a MarkAsEncrypted(path, profile, algorithm) step changes
MarkFrame(path, profile, algorithm) ==
    LET ro == manifest.ReadingOrder
        after == manifest'.ReadingOrder
        hits == {i \in 1..Len(ro) : ro[i].Href = path}
    IN /\ zipWriter' = zipWriter
       /\ manifest'.Resources = manifest.Resources
       /\ Len(after) = Len(ro)
       /\ \A i \in 1..Len(ro) :
            /\ after[i].Href = ro[i].Href
            /\ after[i].Type = ro[i].Type
            /\ after[i].Properties =
                IF i \in hits /\ \A j \in hits : i <= j
                THEN <<[Encrypted |->
                          <<[Scheme |-> "http://readium.org/2014/01/lcp",
                             Profile |-> profile, Algorithm |-> algorithm]>>]>>
                ELSE ro[i].Properties
       /\ (hits = {} => manifest' = manifest)

\* C9: MarkAsEncrypted attaches the record {LCP scheme, given profile, given
\* algorithm} to the first link whose href is the path and changes nothing else of
\* the reading order, of the manifest and of the archive; with no such link the
\* writer is unchanged.
C9_MarkAsEncryptedFrame ==
    [][\A path \in MarkPaths, profile \in Profiles, algorithm \in Algorithms :
          MarkAsEncrypted(path, profile, algorithm) =>
              MarkFrame(path, profile, algorithm)]_vars

\* C9 witness: after a MarkAsEncrypted, two links of one href, only the first with
\* an encryption record
C9_Witness ==
    /\ phase = "writing"
    /\ lastOp.op = "MarkAsEncrypted"
    /\ Len(manifest.ReadingOrder) = 2
    /\ manifest.ReadingOrder[1].Href = manifest.ReadingOrder[2].Href
    /\ IsEncrypted(manifest.ReadingOrder[1])
    /\ ~IsEncrypted(manifest.ReadingOrder[2])

\* C10: a failed open or copy of the W3C manifest or of an ancillary resource does
\* not end NewWriter, which goes on to the next resource and returns a writer; it
\* returns an error only when creating a destination entry failed.
C10_NewWriterSwallowsCopyErrors ==
    lastOp.op = "NewWriter" =>
        /\ (lastOp.status = "error" => lastOp.seen[Len(lastOp.seen)] = "create_err")
        /\ \A i \in 1..Len(lastOp.seen) :
            lastOp.seen[i] \in {"open_err", "copy_err"} =>
                i < Len(lastOp.seen) \/ lastOp.status = "ok"

\* the manifest of the source container: what its first manifest.json decodes to
SourceManifest ==
    (CHOOSE e \in Range(zipArchive) :
        \E f \in 1..Len(zipArchive) :
            /\ zipArchive[f] = e
            /\ e.Name = "manifest.json"
            /\ \A g \in 1..(f - 1) : zipArchive[g].Name # "manifest.json").json[1]

\* what a call of Resources() returned, against the source container
C11_Result ==
    lastOp.op = "Resources" =>
        LET ro == SourceManifest.ReadingOrder
            res == lastOp.result
        IN /\ Len(res) = Len(ro)
           /\ \A i \in 1..Len(ro) :
                /\ res[i].contentType = ro[i].Type
                /\ res[i].isEncrypted <=>
                        (ro[i].Properties # <<>> /\ ro[i].Properties[1].Encrypted # <<>>)
                /\ (res[i].file = 0 <=>
                        \A f \in 1..Len(zipArchive) : zipArchive[f].Name # ro[i].Href)
                /\ (res[i].file # 0 => zipArchive[res[i].file].Name = ro[i].Href)

\* C11: Resources() yields one Resource per link of the source reading order and none
\* for the ancillary resources, in manifest order, with the encrypted flag true iff
\* the source link carries an encryption record; every call returns that sequence of
\* the source container, which no operation changes, also after NewWriter and after
\* NewFile, MarkAsEncrypted and Close on the writer.
C11_ResourcesRestartable ==
    [](C11_Result) /\ [][zipArchive' = zipArchive]_vars

\* C11 witness: Resources() called after NewWriter, a NewFile, a MarkAsEncrypted and
\* Close, on a source whose first link has properties without an encryption record
\* and whose second link has one; the writer's reading order is another sequence
C11_Witness ==
    /\ lastOp.op = "Resources"
    /\ phase = "closed"
    /\ readerManifest = PropertiesOnlyPublication
    /\ Len(newFileCalls) = 1
    /\ markedPaths # {}
    /\ Len(manifest.ReadingOrder) = 1
    /\ Len(lastOp.result) = 2
    /\ ~lastOp.result[1].isEncrypted
    /\ lastOp.result[2].isEncrypted

\* C12: when CopyTo, OpenRWPP or BuildRWPPFromPDF returns, on every exit path, every
\* stream and archive handle it opened is closed, except the one handed to the caller
\* on success.
C12_HandlesReleased ==
    lastOp.op \in {"CopyTo", "OpenRWPP", "BuildRWPPFromPDF"} => lastOp.leaked = {}

\* C13: for a source container whose manifest was decoded, NewWriter returns a writer
\* or an error, and Path(), Size() and CopyTo() of every Resource return a value or an
\* error; none of them crashes.
C13_NeverCrashes ==
    openErr = Nil =>
        /\ (lastOp.op = "NewWriter" => lastOp.status \in {"ok", "error"})
        /\ (lastOp.op \in {"Path", "Size"} => ~lastOp.panic)
        /\ (lastOp.op = "CopyTo" => lastOp.ret # "panic")
        /\ phase # "panicked"
====
